---- MODULE Spec2Model ----
(***************************************************************************)
(* Bonding-curve pool (LP) + compounding Vault of math/test_yield_model.py *)
(* as a state machine.  Every monetary quantity of the program is a        *)
(* decimal.Decimal in the default context (28 significant digits,          *)
(* ROUND_HALF_EVEN); the first part of the module is that arithmetic, the  *)
(* second part the Vault, the third the pool, the last the properties.     *)
(***************************************************************************)
EXTENDS Integers, Sequences, FiniteSets, TLC

(***************************************************************************)
(* PART 1.  decimal.Decimal                                                *)
(*                                                                         *)
(* Natural numbers of any size are little-endian sequences of limbs in     *)
(* 0..BASE-1 without high zero limbs (<<>> is 0).  A Decimal is a record   *)
(* [s, c, e] of value s * c * 10^e with s in {-1, 0, 1} and c either 0 or  *)
(* a natural of exactly PREC digits, so that two Decimals are numerically  *)
(* equal (Python's ==) exactly when the records are equal.                 *)
(***************************************************************************)
BASE == 10000
LIMBDIGITS == 4
PREC == 28
NLIMB == 7
GUARD == 32

Pow10(j) == CASE j = 0 -> 1 [] j = 1 -> 10 [] j = 2 -> 100 [] j = 3 -> 1000 [] OTHER -> 10000

Limb(a, i) == IF i >= 1 /\ i <= Len(a) THEN a[i] ELSE 0

NatMax(x, y) == IF x >= y THEN x ELSE y

SetMax(S) == CHOOSE i \in S : \A j \in S : j <= i

\* a without its high zero limbs
NatTrim(a) ==
    LET nz == {i \in 1..Len(a) : a[i] # 0}
    IN  IF nz = {} THEN <<>> ELSE SubSeq(a, 1, SetMax(nz))

\* the limbs cols[i..] with the carry propagated; each cols[i] + carry is below 2^31
RECURSIVE NatCarry(_, _, _)
NatCarry(cols, i, carry) ==
    IF i > Len(cols)
    THEN IF carry = 0 THEN <<>>
         ELSE <<carry % BASE>> \o NatCarry(cols, i, carry \div BASE)
    ELSE LET s == cols[i] + carry
         IN  <<s % BASE>> \o NatCarry(cols, i + 1, s \div BASE)

\* the limbs of a - b from limb i on, for a >= b
RECURSIVE NatBorrow(_, _, _, _)
NatBorrow(a, b, i, borrow) ==
    IF i > Len(a) THEN <<>>
    ELSE LET d == a[i] - Limb(b, i) - borrow
         IN  IF d < 0 THEN <<d + BASE>> \o NatBorrow(a, b, i + 1, 1)
             ELSE <<d>> \o NatBorrow(a, b, i + 1, 0)

\* the sequence <<f[1], ..., f[n]>> of a function on 1..n
AsSeq(f) == SubSeq(f, 1, Len(f))

NatAdd(a, b) ==
    NatCarry(AsSeq([i \in 1..NatMax(Len(a), Len(b)) |-> Limb(a, i) + Limb(b, i)]), 1, 0)

\* a - b for a >= b
NatSub(a, b) == NatTrim(NatBorrow(a, b, 1, 0))

\* -1, 0, 1 as a < b, a = b, a > b
NatCmp(a, b) ==
    IF Len(a) > Len(b) THEN 1
    ELSE IF Len(a) < Len(b) THEN -1
    ELSE LET df == {i \in 1..Len(a) : a[i] # b[i]}
         IN  IF df = {} THEN 0
             ELSE IF a[SetMax(df)] > b[SetMax(df)] THEN 1 ELSE -1

\* a * b for a of at most NLIMB limbs
NatMul(a, b) ==
    IF a = <<>> \/ b = <<>> THEN <<>>
    ELSE NatCarry(AsSeq([k \in 1..(Len(a) + Len(b) - 1) |->
             Limb(a, 1) * Limb(b, k) + Limb(a, 2) * Limb(b, k - 1) + Limb(a, 3) * Limb(b, k - 2)
             + Limb(a, 4) * Limb(b, k - 3) + Limb(a, 5) * Limb(b, k - 4)
             + Limb(a, 6) * Limb(b, k - 5) + Limb(a, 7) * Limb(b, k - 6)]), 1, 0)

\* a * m for 0 <= m < BASE
NatMulSmall(a, m) ==
    IF m = 0 THEN <<>> ELSE NatCarry(AsSeq([i \in 1..Len(a) |-> a[i] * m]), 1, 0)

\* a * 10^k
NatShiftLeft(a, k) ==
    IF a = <<>> THEN a
    ELSE LET lw == k \div LIMBDIGITS
             p  == Pow10(k % LIMBDIGITS)
             hi == BASE \div p
         IN  NatTrim([i \in 1..(lw + Len(a) + 1) |->
                 IF i <= lw THEN 0
                 ELSE (Limb(a, i - lw) % hi) * p + (Limb(a, i - lw - 1) \div hi)])

\* [q |-> a \div 10^k, nz |-> (a % 10^k # 0)]
NatDropDigits(a, k) ==
    LET lw == k \div LIMBDIGITS
        p  == Pow10(k % LIMBDIGITS)
        hi == BASE \div p
    IN  [q  |-> NatTrim([i \in 1..(Len(a) - lw) |->
                    (a[i + lw] \div p) + (Limb(a, i + lw + 1) % p) * hi]),
         nz |-> \E i \in 1..Len(a) : (i <= lw /\ a[i] # 0) \/ (i = lw + 1 /\ a[i] % p # 0)]

DigitsOfLimb(x) == IF x >= 1000 THEN 4 ELSE IF x >= 100 THEN 3 ELSE IF x >= 10 THEN 2 ELSE 1

NatDigits(a) == IF a = <<>> THEN 0 ELSE LIMBDIGITS * (Len(a) - 1) + DigitsOfLimb(a[Len(a)])

\* an under-estimate, at least 1, of r \div b from the leading limbs, for r >= b
NatQuotEst(r, b) ==
    LET n == Len(b)
        t == IF Len(r) > n THEN r[n + 1] * BASE + r[n] ELSE r[n]
    IN  NatMax(1, t \div (b[n] + 1))

\* one limb of a long division: [q |-> q + r \div b, r |-> r % b] for r < b * BASE, by
\* repeated under-estimates of the quotient
RECURSIVE NatQuotLimb(_, _, _)
NatQuotLimb(r, b, q) ==
    IF NatCmp(r, b) < 0 THEN [q |-> q, r |-> r]
    ELSE NatQuotLimb(NatSub(r, NatMulSmall(b, NatQuotEst(r, b))), b, q + NatQuotEst(r, b))

\* long division by b: the limbs a[1..i] are still to bring down, r is the remainder
\* and q the quotient of the limbs above them; s is the division of the next limb
RECURSIVE NatLongDiv(_, _, _, _, _)
NatBringDown(a, b, i, s, q) ==
    IF s.q = 0 /\ q = <<>> THEN NatLongDiv(a, b, i - 1, s.r, q)
    ELSE NatLongDiv(a, b, i - 1, s.r, <<s.q>> \o q)

NatLongDiv(a, b, i, r, q) ==
    IF i = 0 THEN [q |-> NatTrim(q), r |-> r]
    ELSE NatBringDown(a, b, i, NatQuotLimb(NatTrim(<<a[i]>> \o r), b, 0), q)

\* [q |-> a \div b, r |-> a % b] for b > 0
NatDivMod(a, b) ==
    IF Len(a) < Len(b) THEN [q |-> <<>>, r |-> a]
    ELSE NatLongDiv(a, b, Len(a) - Len(b) + 1, SubSeq(a, Len(a) - Len(b) + 2, Len(a)), <<>>)

NatOfInt(n) == NatCarry(<<n>>, 1, 0)

DZero == [s |-> 0, c |-> <<>>, e |-> 0]

TenPow27 == <<0, 0, 0, 0, 0, 0, 1000>>

\* q + 1 when the digits dropped after q (the first of them digit, rest: the others
\* are not all zero) round it up, ties to even, and q otherwise
NatRoundHalfEven(q, digit, rest) ==
    IF digit > 5 \/ (digit = 5 /\ (rest \/ q[1] % 2 = 1)) THEN NatAdd(q, <<1>>) ELSE q

\* sign * c * 10^e for c of PREC digits or c = 10^PREC
DOfCoefficient(sign, c, e) ==
    IF Len(c) > NLIMB THEN [s |-> sign, c |-> TenPow27, e |-> e + 1]
    ELSE [s |-> sign, c |-> c, e |-> e]

\* the rounding of d29.q, a natural of PREC + 1 digits
DRoundLast(sign, d29, e, sticky) ==
    DOfCoefficient(sign, NatRoundHalfEven(NatDropDigits(d29.q, 1).q, d29.q[1] % 10,
                                          d29.nz \/ sticky), e)

\* the rounding of n, a natural of nd digits
DRoundDigits(sign, n, e, sticky, nd) ==
    IF nd <= PREC
    THEN [s |-> sign, c |-> NatShiftLeft(n, PREC - nd), e |-> e - (PREC - nd)]
    ELSE DRoundLast(sign, NatDropDigits(n, nd - PREC - 1), e + (nd - PREC), sticky)

\* the Decimal nearest to sign * n * 10^e (sticky: digits beyond n are not all zero),
\* rounded to PREC digits, ties to even
DRound(sign, n, e, sticky) ==
    IF n = <<>> THEN DZero ELSE DRoundDigits(sign, n, e, sticky, NatDigits(n))

\* D(n) for an integer n
DInt(n) ==
    IF n = 0 THEN DZero
    ELSE DRound(IF n < 0 THEN -1 ELSE 1, NatOfInt(IF n < 0 THEN -n ELSE n), 0, FALSE)

DNeg(a) == [a EXCEPT !.s = -a.s]

\* comparison of magnitudes of two non-zero Decimals
DCmpAbs(a, b) ==
    IF a.e > b.e THEN 1 ELSE IF a.e < b.e THEN -1 ELSE NatCmp(a.c, b.c)

\* -1, 0, 1 as a < b, a == b, a > b
DCmp(a, b) ==
    IF a.s # b.s THEN (IF a.s > b.s THEN 1 ELSE -1)
    ELSE IF a.s = 0 THEN 0
    ELSE a.s * DCmpAbs(a, b)

DLt(a, b) == DCmp(a, b) < 0
DLe(a, b) == DCmp(a, b) <= 0
DGt(a, b) == DCmp(a, b) > 0
DGe(a, b) == DCmp(a, b) >= 0

\* Python's min and max return the first of equal arguments; equal Decimals are equal records
DMin(a, b) == IF DLt(b, a) THEN b ELSE a
DMax(a, b) == IF DGt(b, a) THEN b ELSE a
DMin3(a, b, c) == DMin(DMin(a, b), c)
DMax3(a, b, c) == DMax(DMax(a, b), c)

\* |a| + |b| when same, |a| - |b| otherwise, with the sign of a, for non-zero a, b with
\* |a| >= |b|; an operand more than GUARD - 2 digits below the other cannot change the
\* rounded result
DAddAbs(a, b, same) ==
    IF a.e - b.e > GUARD - 2 THEN a
    ELSE DRound(a.s, IF same THEN NatAdd(NatShiftLeft(a.c, a.e - b.e), b.c)
                     ELSE NatSub(NatShiftLeft(a.c, a.e - b.e), b.c), b.e, FALSE)

DAdd(a, b) ==
    IF a.s = 0 THEN b
    ELSE IF b.s = 0 THEN a
    ELSE IF a.s # b.s /\ DCmpAbs(a, b) = 0 THEN DZero
    ELSE DAddAbs(IF DCmpAbs(a, b) >= 0 THEN a ELSE b, IF DCmpAbs(a, b) >= 0 THEN b ELSE a,
                 a.s = b.s)

DSub(a, b) == DAdd(a, DNeg(b))

DMul(a, b) ==
    IF a.s = 0 \/ b.s = 0 THEN DZero
    ELSE DRound(a.s * b.s, NatMul(a.c, b.c), a.e + b.e, FALSE)

\* the rounding of sign * (dm.q + a fraction that is zero when dm.r is) * 10^e
DRoundQuotient(sign, dm, e) == DRound(sign, dm.q, e, dm.r # <<>>)

\* a / b for b # 0
DDiv(a, b) ==
    IF a.s = 0 \/ b.s = 0 THEN DZero
    ELSE DRoundQuotient(a.s * b.s, NatDivMod(NatShiftLeft(a.c, GUARD), b.c), a.e - b.e - GUARD)

(***************************************************************************)
(* PART 2.  Constants, Optional values, dictionaries, the Vault            *)
(*                                                                         *)
(* An Optional value is a sequence of length at most one: None is <<>>.    *)
(* A dict is a function whose domain is the set of its keys.  A method     *)
(* that can raise returns its object as the exception leaves it together   *)
(* with the exception raised ("" when it returns normally).                *)
(***************************************************************************)
K == DInt(1000)
B == DInt(1000000000)
EXPOSURE_FACTOR == DMul(DInt(100), K)
CAP == DMul(DInt(1), B)
VIRTUAL_LIMIT == DMul(DInt(100), K)

\* F of the value v: a local variable of a method, assigned once (v) and read by the
\* statements after it (F)
Let(v, F(_)) == F(v)

None == <<>>
Some(v) == <<v>>
Get(o) == o[1]

EmptyDict == [n \in {} |-> DZero]
DictGet(d, key, default) == IF key \in DOMAIN d THEN d[key] ELSE default
DictSet(d, key, v) == [n \in (DOMAIN d) \cup {key} |-> IF n = key THEN v ELSE d[n]]
\* a deletion that leaves the entry in place
DictKeep(d, key) == d
DictDel(d, key) == [n \in (DOMAIN d) \ {key} |-> d[n]]

NoError == ""
NothingStaked == "Nothing staked!"
MintOverCap == "Cannot mint over cap"
KeyError == "KeyError"

CompoundingSnapshot(value, index) == [value |-> value, index |-> index]

VaultInit ==
    [apy |-> DDiv(DInt(5), DInt(100)),
     balance_usd |-> DInt(0),
     compounding_index |-> DInt(1),
     snapshot |-> None,
     compounds |-> 0]

balance_of(v) ==
    IF v.snapshot = None THEN v.balance_usd
    ELSE DMul(Get(v.snapshot).value, DDiv(v.compounding_index, Get(v.snapshot).index))

\* the vault with the snapshot taken: balance_usd = balance_of()
set_balance(v) == [v EXCEPT !.balance_usd = balance_of(v)]

\* add that re-snapshots the stored balance_usd instead of balance_of()
add_stale(v, value) ==
    set_balance([v EXCEPT !.snapshot =
                     Some(CompoundingSnapshot(DAdd(value, v.balance_usd), v.compounding_index))])

add(v, value) ==
    set_balance([v EXCEPT !.snapshot =
                     Some(CompoundingSnapshot(DAdd(value, balance_of(v)), v.compounding_index))])

\* remove without the test for a snapshot
remove_unguarded(v, value) ==
    [vault |-> set_balance([v EXCEPT !.snapshot =
                   Some(CompoundingSnapshot(DSub(balance_of(v), value), v.compounding_index))]),
     raised |-> NoError]

remove(v, value) ==
    IF v.snapshot = None THEN [vault |-> v, raised |-> NothingStaked]
    ELSE [vault |-> set_balance([v EXCEPT !.snapshot =
                        Some(CompoundingSnapshot(DSub(balance_of(v), value),
                                                 v.compounding_index))]),
          raised |-> NoError]

\* simple instead of compound interest: index * (1 + days * (rate - 1))
compound_loop_simple(index, rate, days) ==
    DMul(index, DAdd(DInt(1), DMul(DSub(rate, DInt(1)), DInt(days))))

\* index after the loop body has run for each of the remaining days (a zero index
\* stays zero)
RECURSIVE compound_loop(_, _, _)
compound_loop(index, rate, days) ==
    IF days <= 0 \/ index.s = 0 THEN index
    ELSE compound_loop(DMul(index, rate), rate, days - 1)

compound(v, days) ==
    [v EXCEPT !.compounding_index =
                  compound_loop(v.compounding_index, DAdd(DInt(1), DDiv(v.apy, DInt(365))), days),
              !.compounds = v.compounds + days]

(***************************************************************************)
(* PART 3.  The pool (class LP)                                            *)
(*                                                                         *)
(* The pool's reference to its vault is passed as the argument v.          *)
(***************************************************************************)
LPInit ==
    [balance_usd |-> DInt(0),
     balance_token |-> DInt(0),
     minted |-> DInt(0),
     liquidity_token |-> EmptyDict,
     liquidity_usd |-> EmptyDict,
     user_buy_usdc |-> EmptyDict,
     user_snapshot |-> EmptyDict,
     k |-> None,
     buy_usdc |-> DInt(0),
     lp_usdc |-> DInt(0),
     virtual_liquidity |-> DDiv(CAP, EXPOSURE_FACTOR)]

User(usd, token) == [balance_usd |-> usd, balance_token |-> token]

\* the buy principal alone, without its share of the vault's yield
get_buy_usdc_principal(lp, v) == lp.buy_usdc

get_buy_usdc_with_yield(lp, v) ==
    IF lp.buy_usdc = DZero /\ lp.lp_usdc = DZero THEN DInt(0)
    ELSE LET total_principal == DAdd(lp.buy_usdc, lp.lp_usdc)
         IN  IF total_principal = DZero THEN DInt(0)
             ELSE DMul(lp.buy_usdc, DDiv(balance_of(v), total_principal))

\* the exposure without the limits at CAP and 0
get_exposure_unclamped(lp) ==
    DMul(EXPOSURE_FACTOR, DSub(DInt(1), DDiv(DMul(lp.minted, DInt(1000)), CAP)))

get_exposure(lp) ==
    LET effective == DMin(DMul(lp.minted, DInt(1000)), CAP)
        exposure  == DMul(EXPOSURE_FACTOR, DSub(DInt(1), DDiv(effective, CAP)))
    IN  DMax(DInt(0), exposure)

get_token_reserve(lp) ==
    Let(get_exposure(lp), LAMBDA exposure :
        IF DGt(exposure, DZero) THEN DDiv(DSub(CAP, lp.minted), exposure)
        ELSE DSub(CAP, lp.minted))

get_virtual_liquidity(lp) ==
    LET base            == DDiv(CAP, EXPOSURE_FACTOR)
        effective       == DMin(lp.buy_usdc, VIRTUAL_LIMIT)
        liquidity       == DMul(base, DSub(DInt(1), DDiv(effective, VIRTUAL_LIMIT)))
        token_reserve   == get_token_reserve(lp)
        floor_liquidity == DSub(token_reserve, lp.buy_usdc)
    IN  DMax3(DInt(0), liquidity, floor_liquidity)

get_usdc_reserve(lp, v) == DAdd(get_buy_usdc_with_yield(lp, v), get_virtual_liquidity(lp))

price(lp, v) ==
    Let(get_token_reserve(lp), LAMBDA token_reserve :
        IF token_reserve = DZero THEN DInt(1)
        ELSE DDiv(get_usdc_reserve(lp, v), token_reserve))

update_k(lp, v) == [lp EXCEPT !.k = Some(DMul(get_token_reserve(lp), get_usdc_reserve(lp, v)))]

apply_fair_share_cap(v, requested_amount, user_fraction) ==
    Let(balance_of(v), LAMBDA vault_available :
        LET fair_share == DMul(user_fraction, vault_available)
        IN  DMin3(requested_amount, fair_share, vault_available))

\* scaling by the user's fraction of the principal alone
get_fair_share_scaling_fraction(v, requested_total_usdc, user_principal, total_principal) ==
    IF DGt(total_principal, DZero) /\ DGt(requested_total_usdc, DZero)
    THEN DMin(DInt(1), DDiv(user_principal, total_principal))
    ELSE DInt(1)

get_fair_share_scaling(v, requested_total_usdc, user_principal, total_principal) ==
    Let(balance_of(v), LAMBDA vault_available :
        IF DGt(total_principal, DZero) /\ DGt(requested_total_usdc, DZero)
        THEN LET fraction   == DDiv(user_principal, total_principal)
                 fair_share == DMul(fraction, vault_available)
             IN  DMin3(DInt(1), DDiv(fair_share, requested_total_usdc),
                       DDiv(vault_available, requested_total_usdc))
        ELSE IF DGt(requested_total_usdc, DZero)
        THEN DMin(DInt(1), DDiv(vault_available, requested_total_usdc))
        ELSE DInt(1))

\* the pool after the first statement of _get_out_amount: k is initialised when it is None
init_k(lp) ==
    IF lp.k = None
    THEN [lp EXCEPT !.k = Some(DMul(get_token_reserve(lp), get_virtual_liquidity(lp)))]
    ELSE lp

\* a quote of a buy that counts the USDC paid in twice in the new reserve
get_out_amount_flat(lp, v, sold_amount, selling_token) ==
    Let(init_k(lp), LAMBDA lp1 :
    Let(get_token_reserve(lp1), LAMBDA token_reserve :
    Let(get_usdc_reserve(lp1, v), LAMBDA usdc_reserve :
        IF selling_token
        THEN LET new_token_reserve == DAdd(token_reserve, sold_amount)
                 new_usdc_reserve  == DDiv(Get(lp1.k), new_token_reserve)
             IN  Let(DSub(usdc_reserve, new_usdc_reserve), LAMBDA usdc_out_curve :
                     IF lp1.minted = DZero
                     THEN [lp |-> lp1, out |-> DMin(usdc_out_curve, balance_of(v))]
                     ELSE [lp |-> lp1,
                           out |-> apply_fair_share_cap(v, usdc_out_curve,
                                                        DDiv(sold_amount, lp1.minted))])
        ELSE LET new_usdc_reserve  == DAdd(usdc_reserve, DMul(sold_amount, DInt(2)))
                 new_token_reserve == DDiv(Get(lp1.k), new_usdc_reserve)
             IN  [lp |-> lp1, out |-> DSub(token_reserve, new_token_reserve)])))

\* [lp |-> the pool as the call leaves it, out |-> the value returned]
get_out_amount(lp, v, sold_amount, selling_token) ==
    Let(init_k(lp), LAMBDA lp1 :
    Let(get_token_reserve(lp1), LAMBDA token_reserve :
    Let(get_usdc_reserve(lp1, v), LAMBDA usdc_reserve :
        IF selling_token
        THEN LET new_token_reserve == DAdd(token_reserve, sold_amount)
                 new_usdc_reserve  == DDiv(Get(lp1.k), new_token_reserve)
             IN  Let(DSub(usdc_reserve, new_usdc_reserve), LAMBDA usdc_out_curve :
                     IF lp1.minted = DZero
                     THEN [lp |-> lp1, out |-> DMin(usdc_out_curve, balance_of(v))]
                     ELSE [lp |-> lp1,
                           out |-> apply_fair_share_cap(v, usdc_out_curve,
                                                        DDiv(sold_amount, lp1.minted))])
        ELSE LET new_usdc_reserve  == DAdd(usdc_reserve, sold_amount)
                 new_token_reserve == DDiv(Get(lp1.k), new_usdc_reserve)
             IN  [lp |-> lp1, out |-> DSub(token_reserve, new_token_reserve)])))

\* mint without the comparison with CAP
mint_unchecked(lp, amount) ==
    [lp |-> [lp EXCEPT !.balance_token = DAdd(@, amount), !.minted = DAdd(@, amount)],
     raised |-> NoError]

mint(lp, amount) ==
    IF DGt(DAdd(lp.minted, amount), CAP) THEN [lp |-> lp, raised |-> MintOverCap]
    ELSE [lp |-> [lp EXCEPT !.balance_token = DAdd(@, amount), !.minted = DAdd(@, amount)],
          raised |-> NoError]

\* a rehypo that leaves the deposited funds on the pool's balance as well
rehypo_keep(lp, v) == [lp |-> lp, vault |-> add(v, lp.balance_usd)]

rehypo(lp, v) == [lp |-> [lp EXCEPT !.balance_usd = DInt(0)], vault |-> add(v, lp.balance_usd)]

dehypo(lp, v, amount) ==
    Let(remove(v, amount), LAMBDA r :
        IF r.raised # NoError THEN [lp |-> lp, vault |-> v, raised |-> r.raised]
        ELSE [lp |-> [lp EXCEPT !.balance_usd = DAdd(@, amount)], vault |-> r.vault,
              raised |-> NoError])

\* What a call leaves behind: the objects as the call (or the exception that ended it)
\* leaves them, the exception raised, and the locals of the call the properties speak of:
\* out is out_amount (buy, sell) or total_usdc (remove_liquidity), scaling is
\* scaling_factor, requested is total_usdc_full, token_yield is the scaled token yield.
Outcome(users, v, lp, raised, out, scaling, requested, token_yield) ==
    [users |-> users, vault |-> v, lp |-> lp, raised |-> raised, out |-> out,
     scaling |-> scaling, requested |-> requested, token_yield |-> token_yield]

add_liquidity(users, v, lp, name, token_amount, usd_amount) ==
    LET users1 == [users EXCEPT ![name].balance_token = DSub(@, token_amount),
                                ![name].balance_usd = DSub(@, usd_amount)]
        lp1    == [lp EXCEPT !.balance_token = DAdd(@, token_amount),
                             !.balance_usd = DAdd(@, usd_amount),
                             !.lp_usdc = DAdd(@, usd_amount)]
    IN  Let(rehypo(lp1, v), LAMBDA r :
        LET lp2 == IF r.lp.k = None THEN update_k(r.lp, r.vault) ELSE r.lp
            lp3 == [lp2 EXCEPT
                       !.user_snapshot = DictSet(@, name, r.vault.compounding_index),
                       !.liquidity_token =
                           DictSet(@, name, DAdd(DictGet(@, name, DInt(0)), token_amount)),
                       !.liquidity_usd =
                           DictSet(@, name, DAdd(DictGet(@, name, DInt(0)), usd_amount))]
        IN  Outcome(users1, r.vault, lp3, NoError, DZero, DZero, DZero, DZero))

remove_liquidity(users, v, lp, name) ==
    IF name \notin DOMAIN lp.liquidity_token
    THEN Outcome(users, v, lp, KeyError, DZero, DZero, DZero, DZero)
    ELSE
    LET token_deposit      == lp.liquidity_token[name]
        usd_deposit        == lp.liquidity_usd[name]
        buy_usdc_principal == DictGet(lp.user_buy_usdc, name, DInt(0))
        principal          == DAdd(usd_deposit, buy_usdc_principal)
        total_principal    == DAdd(lp.lp_usdc, lp.buy_usdc)
    IN
    Let(DDiv(v.compounding_index, lp.user_snapshot[name]), LAMBDA delta :
    LET usd_yield       == DMul(usd_deposit, DSub(delta, DInt(1)))
        usd_amount_full == DAdd(usd_deposit, usd_yield)
    IN
    Let(DMul(token_deposit, DSub(delta, DInt(1))), LAMBDA token_yield_full :
    Let(DMul(buy_usdc_principal, DSub(delta, DInt(1))), LAMBDA buy_usdc_yield_full :
    Let(DAdd(usd_amount_full, buy_usdc_yield_full), LAMBDA total_usdc_full :
    Let(get_fair_share_scaling(v, total_usdc_full, principal, total_principal),
        LAMBDA scaling_factor :
    Let(DMul(total_usdc_full, scaling_factor), LAMBDA total_usdc :
    Let(DMul(token_yield_full, scaling_factor), LAMBDA token_yield :
    Let(DAdd(token_deposit, token_yield), LAMBDA token_amount :
    Let(mint(lp, token_yield), LAMBDA m :
        IF m.raised # NoError
        THEN Outcome(users, v, m.lp, m.raised, total_usdc, scaling_factor, total_usdc_full,
                     token_yield)
        ELSE
    Let(dehypo(m.lp, v, total_usdc), LAMBDA d :
        IF d.raised # NoError
        THEN Outcome(users, d.vault, d.lp, d.raised, total_usdc, scaling_factor,
                     total_usdc_full, token_yield)
        ELSE LET buy_usdc_yield_actual == DMul(buy_usdc_yield_full, scaling_factor)
                 lp1 == [d.lp EXCEPT !.lp_usdc = DSub(@, usd_deposit),
                                     !.buy_usdc = DSub(@, buy_usdc_yield_actual),
                                     !.balance_token = DSub(@, token_amount),
                                     !.balance_usd = DSub(@, total_usdc),
                                     !.liquidity_token = DictDel(@, name),
                                     !.liquidity_usd = DictDel(@, name),
                                     !.user_buy_usdc = DictDel(@, name)]
                 users1 == [users EXCEPT ![name].balance_token = DAdd(@, token_amount),
                                         ![name].balance_usd = DAdd(@, total_usdc)]
             IN  Outcome(users1, d.vault, lp1, NoError, total_usdc, scaling_factor,
                         total_usdc_full, token_yield)))))))))))

buy(users, v, lp, name, amount) ==
    LET users1 == [users EXCEPT ![name].balance_usd = DSub(@, amount)]
        lp1    == [lp EXCEPT !.balance_usd = DAdd(@, amount)]
    IN
    Let(get_out_amount(lp1, v, amount, FALSE), LAMBDA q :
    Let(mint(q.lp, q.out), LAMBDA m :
        IF m.raised # NoError
        THEN Outcome(users1, v, m.lp, m.raised, q.out, DZero, DZero, DZero)
        ELSE LET lp2    == [m.lp EXCEPT
                               !.balance_token = DSub(@, q.out),
                               !.buy_usdc = DAdd(@, amount),
                               !.user_buy_usdc =
                                   DictSet(@, name, DAdd(DictGet(@, name, DInt(0)), amount))]
                 users2 == [users1 EXCEPT ![name].balance_token = DAdd(@, q.out)]
             IN
    Let(rehypo(lp2, v), LAMBDA r :
        Outcome(users2, r.vault, update_k(r.lp, r.vault), NoError, q.out,
                DZero, DZero, DZero))))

sell(users, v, lp, name, amount) ==
    LET users1 == [users EXCEPT ![name].balance_token = DSub(@, amount)]
        lp1    == [lp EXCEPT !.minted = DSub(@, amount)]
    IN
    Let(get_out_amount(lp1, v, amount, TRUE), LAMBDA q :
    LET lp2 == [q.lp EXCEPT !.buy_usdc = DSub(@, q.out)]
    IN
    Let(dehypo(lp2, v, q.out), LAMBDA d :
        IF d.raised # NoError
        THEN Outcome(users1, d.vault, d.lp, d.raised, q.out, DZero, DZero, DZero)
        ELSE LET lp3    == [d.lp EXCEPT !.balance_usd = DSub(@, q.out)]
                 users2 == [users1 EXCEPT ![name].balance_usd = DAdd(@, q.out)]
             IN  Outcome(users2, d.vault, update_k(lp3, d.vault), NoError, q.out,
                         DZero, DZero, DZero)))

(***************************************************************************)
(* PART 4.  The state machine                                              *)
(*                                                                         *)
(* users, vault and lp are the objects of the program.  last records the   *)
(* call that produced the current state: its name and arguments, the       *)
(* exception it raised, the locals the properties speak of and the objects *)
(* as they were when it was called.  steps counts the calls made.          *)
(***************************************************************************)
VARIABLES users, vault, lp, last, steps

vars == <<users, vault, lp, last, steps>>

\* bounds of the model
MaxSteps == 4
MaxDays == 30

Names == {"aaron", "bob"}
InitialUsd == DInt(2000)
BuyAmounts == {DInt(200)}
LiquidityUsd == {DDiv(DInt(99742), DInt(1000))}
Days == {1, MaxDays}

\* a holder of tokens that were issued outside the pool (User(name, usd, token)):
\* a day's yield on WindowTokens brings minted to within 10 tokens below CAP / 1000,
\* a day's yield on HugeTokens is more than CAP
Whale == "aaron"
WindowTokens == DMul(DInt(72999635), DInt(100))
HugeTokens == DMul(DInt(8000), B)
CapTokens == {WindowTokens, HugeTokens}
CapSellAmounts == {DInt(100)}
CapDays == {1}
MaxCapSteps == 5

\* a single user's trades, with a yield period long enough for the sale to pay out
\* more than the user paid in
MaxDrainSteps == 5
Seller == "aaron"
DrainBuyAmounts == {DInt(7)}
DrainLiquidityUsd == {DDiv(DInt(2), DInt(100))}
DrainDays == {100}

\* direct calls of the Vault's methods
VaultValues == {DInt(100), DDiv(DInt(1000), DInt(3))}
VaultDays == {0, 1, MaxDays}

\* the call before the last one, for properties of two calls in a row
Before(op, name, amount, token_amount, raised, pre) ==
    [op |-> op, name |-> name, amount |-> amount, token_amount |-> token_amount,
     raised |-> raised, pre |-> pre]

Call(op, name, amount, token_amount, days, pre, r, before) ==
    [op |-> op, name |-> name, amount |-> amount, token_amount |-> token_amount,
     days |-> days, raised |-> r.raised, out |-> r.out, scaling |-> r.scaling,
     requested |-> r.requested, token_yield |-> r.token_yield, pre |-> pre,
     before |-> before]

World == [users |-> users, vault |-> vault, lp |-> lp]

\* the outcome of a call on the vault alone
VaultOutcome(v, raised) == Outcome(users, v, lp, raised, DZero, DZero, DZero, DZero)

Start(us) ==
    /\ users = us
    /\ vault = VaultInit
    /\ lp = LPInit
    /\ steps = 0
    /\ last = LET w == [users |-> us, vault |-> VaultInit, lp |-> LPInit]
              IN  Call("init", "", DZero, DZero, 0, w,
                       Outcome(us, VaultInit, LPInit, NoError, DZero, DZero, DZero, DZero),
                       Before("init", "", DZero, DZero, NoError, w))

Init == Start([n \in Names |-> User(InitialUsd, DInt(0))])

InitCap ==
    Start([n \in Names |-> IF n = Whale THEN User(InitialUsd, DAdd(WindowTokens, HugeTokens))
                                       ELSE User(InitialUsd, DInt(0))])

Step(op, name, amount, token_amount, days, r) ==
    /\ users' = r.users
    /\ vault' = r.vault
    /\ lp' = r.lp
    /\ steps' = steps + 1
    /\ last' = Call(op, name, amount, token_amount, days, World, r,
                    Before(last.op, last.name, last.amount, last.token_amount, last.raised,
                           last.pre))

Buy(name, amount) ==
    Step("buy", name, amount, DZero, 0, buy(users, vault, lp, name, amount))

Sell(name, amount) ==
    Step("sell", name, amount, DZero, 0, sell(users, vault, lp, name, amount))

AddLiquidity(name, token_amount, usd_amount) ==
    Step("add_liquidity", name, usd_amount, token_amount, 0,
         add_liquidity(users, vault, lp, name, token_amount, usd_amount))

RemoveLiquidity(name) ==
    Step("remove_liquidity", name, DZero, DZero, 0, remove_liquidity(users, vault, lp, name))

Compound(days) ==
    Step("compound", "", DZero, DZero, days, VaultOutcome(compound(vault, days), NoError))

VaultAdd(value) ==
    Step("vault_add", "", value, DZero, 0, VaultOutcome(add(vault, value), NoError))

VaultRemove(value) ==
    \E r \in {remove(vault, value)} :
        Step("vault_remove", "", value, DZero, 0, VaultOutcome(r.vault, r.raised))

\* a direct call of lp.mint
Mint(amount) ==
    \E r \in {mint(lp, amount)} :
        Step("mint", "", amount, DZero, 0,
             Outcome(users, vault, r.lp, r.raised, DZero, DZero, DZero, DZero))

\* the tokens a user can sell or provide: all they hold
Holding(name) ==
    IF DGt(users[name].balance_token, DZero) THEN {users[name].balance_token} ELSE {}

Providing(name) ==
    IF DGe(users[name].balance_token, DZero) THEN {users[name].balance_token} ELSE {}

\* a run makes at most MaxSteps calls
More == steps < MaxSteps

\* users who trade and provide liquidity out of what they hold
Next ==
    \/ \E name \in Names, amount \in BuyAmounts : More /\ Buy(name, amount)
    \/ \E name \in Names : \E amount \in Holding(name) : More /\ Sell(name, amount)
    \/ \E name \in Names, usd_amount \in LiquidityUsd :
           \E token_amount \in Providing(name) :
               More /\ AddLiquidity(name, token_amount, usd_amount)
    \/ \E name \in Names : More /\ RemoveLiquidity(name)
    \/ \E days \in Days : More /\ Compound(days)

Spec == Init /\ [][Next]_vars

\* a holder of outside tokens providing them as liquidity, up to the cap, in runs of at
\* most MaxCapSteps calls
MoreCap == steps < MaxCapSteps

NextCap ==
    \/ \E amount \in BuyAmounts : MoreCap /\ Buy(Whale, amount)
    \/ \E amount \in CapSellAmounts : MoreCap /\ Sell(Whale, amount)
    \/ \E token_amount \in CapTokens : MoreCap /\ AddLiquidity(Whale, token_amount, DInt(0))
    \/ MoreCap /\ RemoveLiquidity(Whale)
    \/ \E days \in CapDays : MoreCap /\ Compound(days)

CapSpec == InitCap /\ [][NextCap]_vars

\* the Vault's methods called directly
NextVault ==
    \/ \E value \in VaultValues : More /\ VaultAdd(value)
    \/ \E value \in VaultValues : More /\ VaultRemove(value)
    \/ \E days \in VaultDays : More /\ Compound(days)

VaultSpec == Init /\ [][NextVault]_vars

\* one user who buys, provides USD, lets the yield accrue for a long time, sells all the
\* tokens and then removes the liquidity: the buy principal of the position is still
\* counted for the user after the sale, and the payout is limited by what the vault holds
MoreDrain == steps < MaxDrainSteps

NextDrain ==
    \/ \E amount \in DrainBuyAmounts : MoreDrain /\ Buy(Seller, amount)
    \/ \E amount \in Holding(Seller) : MoreDrain /\ Sell(Seller, amount)
    \/ \E usd_amount \in DrainLiquidityUsd :
           MoreDrain /\ AddLiquidity(Seller, DInt(0), usd_amount)
    \/ MoreDrain /\ RemoveLiquidity(Seller)
    \/ \E days \in DrainDays : MoreDrain /\ Compound(days)

DrainSpec == Init /\ [][NextDrain]_vars

\* trades of amounts so small that the rounding to PREC digits shows: DustUsd is 1E-20
\* and DustCent 1E-24 USD, next to an ordinary buy
DustUsd == DDiv(DInt(1), DMul(DMul(DInt(100000), DInt(100000)), DMul(DInt(100000), DInt(100000))))
DustCent == DDiv(DustUsd, DInt(10000))
DustBuyAmounts == {DustUsd, DustCent, DInt(200)}

NextDust ==
    \/ \E amount \in DustBuyAmounts : More /\ Buy(Seller, amount)
    \/ \E amount \in Holding(Seller) : More /\ Sell(Seller, amount)
    \/ \E days \in Days : More /\ Compound(days)

DustSpec == Init /\ [][NextDust]_vars

\* supply minted step by step from 0 up to CAP: below, at and above CAP / 1000, where
\* the exposure reaches 0
MintAmounts == {DInt(1), DInt(499999), DInt(500000), DInt(999000000)}

NextMint == \E amount \in MintAmounts : More /\ Mint(amount)

MintSpec == Init /\ [][NextMint]_vars

\* half of the tokens a user holds
HalfHolding(name) ==
    IF DGt(users[name].balance_token, DZero)
    THEN {DDiv(users[name].balance_token, DInt(2))} ELSE {}

\* one holder who sells a part of the supply after a long yield period
NextShare ==
    \/ \E amount \in DrainBuyAmounts \cup BuyAmounts : More /\ Buy(Seller, amount)
    \/ \E amount \in Holding(Seller) \cup HalfHolding(Seller) : More /\ Sell(Seller, amount)
    \/ \E days \in DrainDays : More /\ Compound(days)

ShareSpec == Init /\ [][NextShare]_vars

\* amounts with more digits than the vault can keep next to a large deposit: a buy of
\* 1000/7 USD (142.8571428571428571428571429) and a liquidity deposit of 90000 USD
FractionBuyAmounts == {DDiv(DInt(1000), DInt(7)), DInt(200)}
FractionLiquidityUsd == {DInt(90000)}

NextFraction ==
    \/ \E amount \in FractionBuyAmounts : More /\ Buy(Seller, amount)
    \/ \E amount \in Holding(Seller) : More /\ Sell(Seller, amount)
    \/ \E usd_amount \in FractionLiquidityUsd :
           More /\ AddLiquidity(Seller, DInt(0), usd_amount)
    \/ More /\ RemoveLiquidity(Seller)
    \/ \E days \in Days : More /\ Compound(days)

FractionSpec == Init /\ [][NextFraction]_vars

\* a holder who provides half of the tokens held as liquidity and then buys enough for
\* the pool's token balance to need more digits than it can keep
PartBuyAmounts == {DInt(7), DInt(1500)}

NextPart ==
    \/ \E amount \in PartBuyAmounts : More /\ Buy(Seller, amount)
    \/ \E amount \in Holding(Seller) : More /\ Sell(Seller, amount)
    \/ \E usd_amount \in DrainLiquidityUsd :
           \E token_amount \in HalfHolding(Seller) :
               More /\ AddLiquidity(Seller, token_amount, usd_amount)
    \/ More /\ RemoveLiquidity(Seller)
    \/ \E days \in DrainDays : More /\ Compound(days)

PartSpec == Init /\ [][NextPart]_vars

(***************************************************************************)
(* PART 5.  Properties                                                     *)
(***************************************************************************)
Completed(ops) == last.op \in ops /\ last.raised = NoError

\* the amount the last call asked mint for
MintRequest == IF last.op = "buy" THEN last.out ELSE last.token_yield

\* C1: minted never exceeds CAP; a mint from buy or from remove_liquidity's token yield
\* that would take minted above CAP raises, and minted is then what it was before the call
C1_CapInvariant ==
    /\ DLe(lp.minted, CAP)
    /\ (last.op \in {"buy", "remove_liquidity"} /\ last.raised # KeyError
        /\ DGt(DAdd(last.pre.lp.minted, MintRequest), CAP))
       => (last.raised = MintOverCap /\ lp.minted = last.pre.lp.minted)
    /\ last.raised = MintOverCap => DGt(DAdd(last.pre.lp.minted, MintRequest), CAP)

C1_Witness ==
    /\ last.op = "buy"
    /\ last.raised = MintOverCap
    /\ DGt(last.pre.lp.minted, DZero)

\* C2: a sell or remove_liquidity pays out at most what vault.balance_of() was when the
\* call started, and vault.balance_of() is never negative
C2_PayoutWithinVault ==
    /\ Completed({"sell", "remove_liquidity"}) => DLe(last.out, balance_of(last.pre.vault))
    /\ DGe(balance_of(vault), DZero)

\* the user's fair share of the vault as remove_liquidity(name) computes it in world w
FairShare(w, name) ==
    DMul(DDiv(DAdd(w.lp.liquidity_usd[name], DictGet(w.lp.user_buy_usdc, name, DInt(0))),
              DAdd(w.lp.lp_usdc, w.lp.buy_usdc)),
         balance_of(w.vault))

\* the token yield of remove_liquidity(name) in world w before scaling
TokenYieldFull(w, name) ==
    DMul(w.lp.liquidity_token[name],
         DSub(DDiv(w.vault.compounding_index, w.lp.user_snapshot[name]), DInt(1)))

\* min(1, fair_share / requested, vault_available / requested) for the last call
ScalingOfLast ==
    DMin3(DInt(1), DDiv(FairShare(last.pre, last.name), last.requested),
          DDiv(balance_of(last.pre.vault), last.requested))

\* both legs of the last remove_liquidity are the full amounts times the one scaling factor
SameScaling ==
    /\ DGt(last.requested, DZero) => last.scaling = ScalingOfLast
    /\ last.out = DMul(last.requested, last.scaling)
    /\ last.token_yield = DMul(TokenYieldFull(last.pre, last.name), last.scaling)
    /\ lp.minted = DAdd(last.pre.lp.minted, last.token_yield)
    /\ balance_of(vault) = DSub(balance_of(last.pre.vault), last.out)

RemovedWithPrincipal ==
    /\ Completed({"remove_liquidity"})
    /\ DGt(DAdd(last.pre.lp.lp_usdc, last.pre.lp.buy_usdc), DZero)

\* C3: with total principal > 0, remove_liquidity pays at most the user's fair
\* share, and the same scaling factor multiplies the USDC payout and the token yield
C3_AtMostFairShare ==
    RemovedWithPrincipal => (DLe(last.out, FairShare(last.pre, last.name)) /\ SameScaling)

\* rounding: one part in 10^26, a unit in the 27th of the 28 significant digits
Slack == [s |-> 1, c |-> TenPow27, e |-> -53]

DAbs(a) == IF a.s < 0 THEN DNeg(a) ELSE a

\* a <= b up to rounding of quantities of the size of scale
AtMostRounded(a, b, scale) == DLe(a, DAdd(b, DMul(DAbs(scale), Slack)))

\* a = b up to rounding of quantities of the size of scale
NearRounded(a, b, scale) == DLe(DAbs(DSub(a, b)), DMul(DAbs(scale), Slack))

\* the product of the virtual reserves of pool p with vault v
ReserveProduct(p, v) == DMul(get_token_reserve(p), get_usdc_reserve(p, v))

\* the k a quote on pool p uses
QuoteK(p) == Get(init_k(p).k)

\* C4 as stated: across a completed buy or sell the product of the virtual reserves before
\* the call, the product after it and the k of the quote are equal up to rounding
C4_ProductPreserved ==
    Completed({"buy", "sell"})
        => LET before == ReserveProduct(last.pre.lp, last.pre.vault)
               after  == ReserveProduct(lp, vault)
           IN  /\ NearRounded(before, after, before)
               /\ NearRounded(before, QuoteK(last.pre.lp), before)

\* the pool as sell(amount) quotes on it: the sold tokens are already burned
Burned(p, amount) == [p EXCEPT !.minted = DSub(@, amount)]

\* C4 amended: the quote of a buy lies on the curve of the k it uses,
\* (token_reserve - out) * (usdc_reserve + amount) = k up to rounding, the payout of a sell
\* leaves at least k, (token_reserve + amount) * (usdc_reserve - out) >= k up to rounding,
\* the reserves being those the quote reads; the k stored after the call is the product of
\* the reserves after the call, which is in general not the product before the call
C4_QuoteOnCurve ==
    /\ Completed({"buy"})
       => LET tr == get_token_reserve(last.pre.lp)
              ur == get_usdc_reserve(last.pre.lp, last.pre.vault)
          IN  NearRounded(DMul(DSub(tr, last.out), DAdd(ur, last.amount)),
                          QuoteK(last.pre.lp), DMul(tr, DAdd(ur, last.amount)))
    /\ Completed({"sell"})
       => LET p  == Burned(last.pre.lp, last.amount)
              tr == get_token_reserve(p)
              ur == get_usdc_reserve(p, last.pre.vault)
          IN  AtMostRounded(QuoteK(p), DMul(DAdd(tr, last.amount), DSub(ur, last.out)),
                            DMul(DAdd(tr, last.amount), ur))
    /\ Completed({"buy", "sell"}) => lp.k = Some(ReserveProduct(lp, vault))

C4_Witness ==
    /\ Completed({"sell"})
    /\ last.before.op = "buy"
    /\ ~NearRounded(ReserveProduct(last.pre.lp, last.pre.vault), ReserveProduct(lp, vault),
                    ReserveProduct(lp, vault))

\* C5: after a completed buy, sell or remove_liquidity that changed minted or buy_usdc, the
\* stored k is the product of the virtual reserves of the state the call leaves
C5_KFresh ==
    (/\ Completed({"buy", "sell", "remove_liquidity"})
     /\ (lp.minted # last.pre.lp.minted \/ lp.buy_usdc # last.pre.lp.buy_usdc))
        => lp.k = Some(ReserveProduct(lp, vault))

\* remove_liquidity right after add_liquidity by the same user, who had no position
RoundTrip ==
    /\ Completed({"remove_liquidity"})
    /\ last.before.op = "add_liquidity"
    /\ last.before.name = last.name
    /\ last.name \notin DOMAIN last.before.pre.lp.liquidity_token

\* C6 as stated: the round trip returns exactly t tokens and exactly u USD, and the user's
\* balances are what they were before the add
C6_RoundTripExact ==
    RoundTrip
        => /\ last.out = last.before.amount
           /\ DSub(users[last.name].balance_token, last.pre.users[last.name].balance_token)
                  = last.before.token_amount
           /\ users[last.name] = last.before.pre.users[last.name]

\* C6 amended: the round trip returns exactly t tokens (no token yield is minted), and
\* USD that is at most u and equal to u up to rounding in the last digits; the user's
\* token and USD balances are what they were before the add, up to rounding
C6_RoundTripRounded ==
    RoundTrip
        => /\ DLe(last.out, last.before.amount)
           /\ NearRounded(last.out, last.before.amount, last.before.amount)
           /\ last.token_yield = DZero
           /\ last.pre.lp.liquidity_token[last.name] = last.before.token_amount
           /\ lp.minted = last.before.pre.lp.minted
           /\ NearRounded(users[last.name].balance_token,
                          last.before.pre.users[last.name].balance_token,
                          DMax(last.before.pre.users[last.name].balance_token,
                               last.before.token_amount))
           /\ NearRounded(users[last.name].balance_usd,
                          last.before.pre.users[last.name].balance_usd,
                          DMax(last.before.pre.users[last.name].balance_usd,
                               last.before.amount))

C6_Witness ==
    /\ RoundTrip
    /\ DGt(last.before.token_amount, DZero)
    /\ DGt(last.before.amount, DZero)

\* C7: Vault.add(value) keeps the accrued yield: balance_of() after the call is
\* balance_of() before it plus value, the new snapshot is taken at the current
\* compounding_index, and balance_of() is 0 as long as nothing was deposited
C7_AddPreservesYield ==
    /\ last.op = "vault_add"
       => /\ balance_of(vault) = DAdd(balance_of(last.pre.vault), last.amount)
          /\ vault.snapshot # None
          /\ Get(vault.snapshot).index = vault.compounding_index
          /\ vault.compounding_index = last.pre.vault.compounding_index
    /\ vault.snapshot = None => balance_of(vault) = DZero

C7_Witness ==
    /\ last.op = "vault_add"
    /\ last.pre.vault.snapshot # None
    /\ last.pre.vault.compounds > 0
    /\ DGt(balance_of(last.pre.vault), Get(last.pre.vault.snapshot).value)
    /\ DGt(Get(last.pre.vault.snapshot).value, DZero)

\* C8: Vault.remove(value) raises and changes no field of the Vault when there is no
\* snapshot; there is a snapshot from the first add on, and remove then never raises
C8_RemoveNeedsDeposit ==
    /\ (last.op = "vault_remove" /\ last.pre.vault.snapshot = None)
       => (last.raised = NothingStaked /\ vault = last.pre.vault)
    /\ (last.op = "vault_remove" /\ last.pre.vault.snapshot # None) => last.raised = NoError
    /\ last.op = "vault_add" => vault.snapshot # None
    /\ last.pre.vault.snapshot # None => vault.snapshot # None

C8_Witness ==
    /\ last.op = "vault_remove"
    /\ last.raised = NothingStaked
    /\ vault.compounds > 0

\* x multiplied n times by r
RECURSIVE MulTimes(_, _, _)
MulTimes(x, r, n) == IF n <= 0 THEN x ELSE MulTimes(DMul(x, r), r, n - 1)

\* 1 + apy / 365
DailyRate == DAdd(DInt(1), DDiv(VaultInit.apy, DInt(365)))

\* compound(days) on a vault of non-negative balance
Compounded == last.op = "compound" /\ DGe(balance_of(last.pre.vault), DZero)

\* what C9 says of the index, the counter and the monotonicity
C9_IndexAndCounter ==
    /\ Compounded
       => /\ vault.compounding_index
                 = MulTimes(last.pre.vault.compounding_index, DailyRate, last.days)
          /\ vault.compounds = last.pre.vault.compounds + last.days
          /\ vault.snapshot = last.pre.vault.snapshot
          /\ DGe(balance_of(vault), balance_of(last.pre.vault))
    /\ DGe(vault.compounding_index, last.pre.vault.compounding_index)

\* C9 as stated: compound(days) multiplies the index days times by 1 + apy/365 and adds
\* days to compounds, balance_of() afterwards is balance_of() before times
\* (1 + apy/365)^days and not smaller than before, and the index never decreases
C9_CompoundExact ==
    /\ C9_IndexAndCounter
    /\ Compounded
       => balance_of(vault)
              = DMul(balance_of(last.pre.vault), MulTimes(DInt(1), DailyRate, last.days))

\* C9 amended: as stated, but balance_of() afterwards equals balance_of() before times
\* (1 + apy/365)^days up to the rounding of the days + 2 operations involved
C9_CompoundRounded ==
    /\ C9_IndexAndCounter
    /\ Compounded
       => LET expected == DMul(balance_of(last.pre.vault),
                               MulTimes(DInt(1), DailyRate, last.days))
          IN  NearRounded(balance_of(vault), expected, DMul(expected, DInt(last.days + 1)))

C9_Witness ==
    /\ Compounded
    /\ last.days = MaxDays
    /\ DGt(balance_of(last.pre.vault), DZero)
    /\ last.pre.vault.compounds > 0
    /\ DGt(balance_of(vault), balance_of(last.pre.vault))

\* C10: a buy that fails because the mint would exceed CAP leaves the user, the pool and
\* the vault exactly as they were before the call
C10_FailedBuyChangesNothing ==
    (last.op = "buy" /\ last.raised = MintOverCap)
        => (users = last.pre.users /\ lp = last.pre.lp /\ vault = last.pre.vault)

\* the price quoted before the last call
PriceBefore == price(last.pre.lp, last.pre.vault)

\* a compound of at least a day on a pool with buy principal and a funded vault
CompoundedWithPrincipal ==
    /\ last.op = "compound"
    /\ last.days >= 1
    /\ DGt(last.pre.lp.buy_usdc, DZero)
    /\ DGt(balance_of(last.pre.vault), DZero)

Bought == Completed({"buy"}) /\ DGt(last.amount, DZero)

\* a pool and a vault on which no method has been called yet
Fresh == lp = LPInit /\ vault = VaultInit

\* C12: a fresh pool has price exactly 1, and every completed buy of a positive amount
\* leaves the price strictly greater than it was before the buy, with k set
C12_PriceRisesOnBuy ==
    /\ Fresh => price(lp, vault) = DInt(1)
    /\ Bought => (DGt(price(lp, vault), PriceBefore) /\ lp.k # None)

\* C13: add_liquidity leaves the price, the virtual token reserve and the virtual USDC
\* reserve exactly as they were before the call, also when the vault has accrued yield
C13_LiquidityCurveNeutral ==
    Completed({"add_liquidity"})
        => /\ price(lp, vault) = PriceBefore
           /\ get_token_reserve(lp) = get_token_reserve(last.pre.lp)
           /\ get_usdc_reserve(lp, vault) = get_usdc_reserve(last.pre.lp, last.pre.vault)

\* C14: after a completed buy or add_liquidity of a USD the pool holds no idle USD and
\* vault.balance_of() is exactly a greater than before the call; the pool holds no idle
\* USD after a completed sell or remove_liquidity either
C14_AllUsdInVault ==
    /\ Completed({"buy", "add_liquidity"})
       => /\ lp.balance_usd = DZero
          /\ balance_of(vault) = DAdd(balance_of(last.pre.vault), last.amount)
    /\ Completed({"sell", "remove_liquidity"}) => lp.balance_usd = DZero

\* the users with an open liquidity position in pool p
Positions(p) == DOMAIN p.liquidity_token

\* C15: liquidity_token and liquidity_usd have the same users; add_liquidity for a user
\* without a position creates entries equal to the amounts; remove_liquidity deletes
\* both entries and the user's user_buy_usdc entry; remove_liquidity for a user without
\* a position fails and changes nothing
C15_PositionLifecycle ==
    /\ DOMAIN lp.liquidity_token = DOMAIN lp.liquidity_usd
    /\ (Completed({"add_liquidity"}) /\ last.name \notin Positions(last.pre.lp))
       => /\ lp.liquidity_token[last.name] = last.token_amount
          /\ lp.liquidity_usd[last.name] = last.amount
    /\ Completed({"remove_liquidity"})
       => /\ last.name \in Positions(last.pre.lp)
          /\ last.name \notin DOMAIN lp.liquidity_token
          /\ last.name \notin DOMAIN lp.liquidity_usd
          /\ last.name \notin DOMAIN lp.user_buy_usdc
    /\ (last.op = "remove_liquidity" /\ last.name \notin Positions(last.pre.lp))
       => /\ last.raised = KeyError
          /\ users = last.pre.users /\ lp = last.pre.lp /\ vault = last.pre.vault

\* a position opened by one call and closed by the next, of a user who had bought
C15_Witness ==
    /\ Completed({"remove_liquidity"})
    /\ last.before.op = "add_liquidity"
    /\ last.before.name = last.name
    /\ last.name \in DOMAIN last.pre.lp.user_buy_usdc
    /\ last.pre.lp.liquidity_token[last.name] = last.before.token_amount

\* the seller's pro-rata share of the vault: the tokens sold over the supply in
\* circulation when sell was called, times vault.balance_of()
ProRataShare ==
    DMul(DDiv(last.amount, last.pre.lp.minted), balance_of(last.pre.vault))

\* C16: the USDC a sell pays out is at most (amount / S) * vault.balance_of(), S being
\* the minted supply when sell is called, before the sold tokens are burned
C16_SellWithinProRata ==
    (last.op = "sell" /\ DGt(last.pre.lp.minted, DZero)) => DLe(last.out, ProRataShare)

\* the exposure lies in [0, EXPOSURE_FACTOR]
ExposureInRange ==
    DGe(get_exposure(lp), DZero) /\ DLe(get_exposure(lp), EXPOSURE_FACTOR)

\* a completed mint: the supply has grown from last.pre.lp.minted to lp.minted
Minted == Completed({"mint"})

\* the supply at which the exposure reaches 0
ExposureEnd == DDiv(CAP, DInt(1000))

NoYield == DCmp(balance_of(vault), DAdd(lp.buy_usdc, lp.lp_usdc)) = 0

\* buy_usdc + get_virtual_liquidity(), the USDC side of the curve before yield
UsdcSide == DAdd(lp.buy_usdc, get_virtual_liquidity(lp))

\* C18: in every reachable state get_virtual_liquidity() >= 0 and
\* buy_usdc + get_virtual_liquidity() >= _get_token_reserve(), and while no yield
\* has accrued the quoted price usdc_reserve / token_reserve is never below 1
C18_CurveNotInverted ==
    /\ DGe(get_virtual_liquidity(lp), DZero)
    /\ DGe(UsdcSide, get_token_reserve(lp))
    /\ NoYield => DGe(price(lp, vault), DInt(1))


\* buy_usdc + lp_usdc, the principal the pool tracks
Principal == DAdd(lp.buy_usdc, lp.lp_usdc)

\* C19: in every reachable state vault.balance_of() >= buy_usdc + lp_usdc
C19_PrincipalBacked == DGe(balance_of(vault), Principal)


\* C20: buy_usdc >= 0 and lp_usdc >= 0 in every reachable state, and a sell pays out
\* at most the buy_usdc principal it is subtracted from
C20_PrincipalNonNegative ==
    /\ DGe(lp.buy_usdc, DZero)
    /\ DGe(lp.lp_usdc, DZero)
    /\ Completed({"sell"}) => DLe(last.out, last.pre.lp.buy_usdc)


\* the tokens of a user's open liquidity position, 0 without one
PositionTokens(name) ==
    IF name \in Positions(lp) THEN lp.liquidity_token[name] ELSE DZero

\* the tokens held by the users and by the pool
TokensHeld ==
    DAdd(DAdd(users["aaron"].balance_token, users["bob"].balance_token), lp.balance_token)

\* the tokens of all the open liquidity positions
TokensProvided == DAdd(PositionTokens("aaron"), PositionTokens("bob"))

\* C21: with all users starting at zero tokens, in every reachable state minted equals
\* the sum of the users' balance_token plus lp.balance_token, and lp.balance_token equals
\* the sum of liquidity_token over the open positions
C21_SupplyConserved ==
    /\ DCmp(lp.minted, TokensHeld) = 0
    /\ DCmp(lp.balance_token, TokensProvided) = 0


\* the USD of the users, of the pool and of the vault together
TotalUsd(us, p, v) ==
    DAdd(DAdd(DAdd(us["aaron"].balance_usd, us["bob"].balance_usd), p.balance_usd),
         balance_of(v))

\* C22: a completed buy, sell, add_liquidity or remove_liquidity leaves the total of the
\* users' balance_usd, lp.balance_usd and vault.balance_of() unchanged, and compound
\* changes nothing but the vault's compounding_index and compounds counter
C22_UsdConserved ==
    /\ Completed({"buy", "sell", "add_liquidity", "remove_liquidity"})
       => DCmp(TotalUsd(users, lp, vault),
               TotalUsd(last.pre.users, last.pre.lp, last.pre.vault)) = 0
    /\ Completed({"compound"})
       => /\ users = last.pre.users
          /\ lp = last.pre.lp
          /\ vault = [last.pre.vault EXCEPT !.compounding_index = vault.compounding_index,
                                            !.compounds = vault.compounds]


\* the sizes of the balances that make up the total
GrossUsd(us, p, v) ==
    DAdd(DAdd(DAdd(DAbs(us["aaron"].balance_usd), DAbs(us["bob"].balance_usd)),
              DAbs(p.balance_usd)),
         DAbs(balance_of(v)))

\* a call of compound leaves everything but compounding_index and compounds as it was
CompoundFrame ==
    Completed({"compound"})
       => /\ users = last.pre.users
          /\ lp = last.pre.lp
          /\ vault = [last.pre.vault EXCEPT !.compounding_index = vault.compounding_index,
                                            !.compounds = vault.compounds]

\* C22 amended: a completed buy, sell, add_liquidity or remove_liquidity leaves the total
\* of the users' balance_usd, lp.balance_usd and vault.balance_of() unchanged up to the
\* rounding of the balances before and after the call, and compound changes nothing but
\* the vault's compounding_index and compounds counter
C22_UsdConservedRounded ==
    /\ Completed({"buy", "sell", "add_liquidity", "remove_liquidity"})
       => NearRounded(TotalUsd(users, lp, vault),
                      TotalUsd(last.pre.users, last.pre.lp, last.pre.vault),
                      DAdd(GrossUsd(users, lp, vault),
                           GrossUsd(last.pre.users, last.pre.lp, last.pre.vault)))
    /\ CompoundFrame

\* a liquidity removal after which the total differs in its last digit
C22_Witness ==
    /\ Completed({"remove_liquidity"})
    /\ DGt(last.out, DZero)
    /\ DCmp(TotalUsd(users, lp, vault),
            TotalUsd(last.pre.users, last.pre.lp, last.pre.vault)) # 0
====
